---------------------------- MODULE Spec2Model ----------------------------
(***************************************************************************)
(* Funding loop and input-filling orchestration of transaction/txinput.go. *)
(*                                                                         *)
(* One Transaction is built by a single caller: it starts empty (NewTx),   *)
(* gains inputs through FromUTXOs and Fund, and has unlocking scripts      *)
(* written by InsertInputUnlockingScript, FillInput and FillAllInputs.     *)
(* The UTXO source, the fee estimator, the unlocker getter and the         *)
(* unlocker are external: every result their signatures allow is drawn     *)
(* nondeterministically.  Go slice indices are 0-based; Inputs[i] of the   *)
(* code is inputs[i + 1] here.                                             *)
(***************************************************************************)
EXTENDS Integers, Sequences, FiniteSets, TLC

VARIABLES
    inputs,     \* tx.Inputs
    outputs,    \* tx.Outputs, as the sequence of their satoshi values
    pc,         \* "idle" | "fund" | "fill" | "returned" | "panicked"
    ret,        \* [op, err] of the last call that returned
    pre,        \* tx.Inputs when the current (or last) call was entered
    fq,         \* Fund: the fee quote argument
    deficit,    \* Fund: the local variable deficit
    calls,      \* Fund: invocations of next so far (saturates at MaxCalls)
    tick,       \* Fund: whether the number of invocations of next so far is odd
    feeCalls,   \* Fund: invocations of estimateDeficit so far (saturating)
    first,      \* Fund: hint and result of the first invocation of next
    last,       \* Fund: hint and result of the latest invocation of next
    i,          \* FillAllInputs: the loop index
    resolved,   \* FillAllInputs: the calls ug.Unlocker received, in order
    unlocked,   \* FillInput/FillAllInputs: the calls unlocker.UnlockingScript received
    args        \* InsertInputUnlockingScript/FillInput: the caller's arguments

\* The locals and records of a Fund call, and of a signing call.
fundVars == <<fq, deficit, calls, tick, feeCalls, first, last>>

fillVars == <<i, resolved, unlocked, args>>

vars == <<inputs, outputs, pc, ret, pre, fundVars, fillVars>>

---------------------------------------------------------------------------
(* Bounds of the model.                                                    *)

MaxInputs == 3

MaxBatch == 2

MaxCalls == 2

---------------------------------------------------------------------------
(* Values.                                                                 *)

Nil == "nil"

ErrNoUTXO == "ErrNoUTXO"

\* fmt.Errorf("...: %w", ErrNoUTXO): a chain errors.Is follows to ErrNoUTXO.
WrappedNoUTXO == "wrapped(ErrNoUTXO)"

ErrInsufficientFunds == "ErrInsufficientFunds"

ErrNoUnlocker == "ErrNoUnlocker"

ErrInvalidTxID == "ErrInvalidTxID"

ErrFeeQuote == "ErrFeeQuote"

Panic == "panic: index out of range"

\* Failures of the UTXO source other than exhaustion (two, to tell them apart).
SourceFailures == {"ErrSourceDown", "ErrCancelled"}

\* A uint32 too large for the checker's integers is held as its two 16-bit
\* halves <<high, low>>; this one is 0xFFFFFFFF.
DefaultSequenceNumber == <<65535, 65535>>

NoScript == "none"

\* Byte strings are sequences of 0..255.  Lengths are scaled down: a
\* transaction identifier has 2 bytes here (32 in the code) and a public key
\* hash 1 byte (20 in the code).
TxIDA == <<17, 180>>

TxIDB == <<171, 205>>

ShortTxID == <<17>>

\* OP_DUP OP_HASH160 <push 1 byte> OP_EQUALVERIFY OP_CHECKSIG
LockA == <<118, 169, 1, 10, 136, 172>>

LockB == <<118, 169, 1, 11, 136, 172>>

Scripts == {LockA, LockB}

\* Unlocking scripts an unlocker can produce.
Proofs == {"sigA", "sigB"}

ErrSign == "ErrSign"

ErrResolve == "ErrResolve"

\* sighash.AllForkID = sighash.All | sighash.ForkID = 0x01 | 0x40
AllForkID == 65

\* Flag sets a caller of FillInput passes: unset, ALL, ALL|FORKID.
FlagChoices == {0, 1, 65}

Unlockers == {"unlocker"}

\* What unlocker.UnlockingScript can return.
UnlockerResults ==
    {[script |-> p, err |-> Nil] : p \in Proofs}
        \cup {[script |-> NoScript, err |-> ErrSign]}

\* What ug.Unlocker can return: a capability, a failure, or neither.
GetterResults ==
    {[unlocker |-> u, err |-> Nil] : u \in Unlockers \cup {Nil}}
        \cup {[unlocker |-> Nil, err |-> ErrResolve]}

\* The previous outputs a source or a caller can offer.  The last one carries
\* an identifier PreviousTxIDAdd rejects.
UTXOs ==
    { [TxID |-> TxIDA, Vout |-> 0, Satoshis |-> 1, LockingScript |-> LockA],
      [TxID |-> TxIDB, Vout |-> 1, Satoshis |-> 2, LockingScript |-> LockB],
      [TxID |-> ShortTxID, Vout |-> 0, Satoshis |-> 2, LockingScript |-> LockA] }

\* Hexadecimal text is a sequence of characters.  The arguments From is
\* called with: the previous outputs above in text form, and malformed text.
TxIDAHex == <<"1", "1", "b", "4">>

TxIDBHex == <<"A", "B", "c", "d">>

ShortTxIDHex == <<"1", "1">>

BadByteHex == <<"1", "g">>

OddLengthHex == <<"1", "1", "b">>

LockAHex == <<"7", "6", "a", "9", "0", "1", "0", "a", "8", "8", "a", "c">>

LockBHex == <<"7", "6", "A", "9", "0", "1", "0", "B", "8", "8", "a", "c">>

BadScriptHex == <<"7", "6", "z", "9">>

FromCalls ==
    { [prevTxID |-> TxIDAHex, vout |-> 0, script |-> LockAHex, satoshis |-> 1],
      [prevTxID |-> TxIDBHex, vout |-> 1, script |-> LockBHex, satoshis |-> 2],
      [prevTxID |-> ShortTxIDHex, vout |-> 0, script |-> LockAHex, satoshis |-> 2],
      [prevTxID |-> BadByteHex, vout |-> 0, script |-> LockAHex, satoshis |-> 1],
      [prevTxID |-> OddLengthHex, vout |-> 1, script |-> LockBHex, satoshis |-> 2],
      [prevTxID |-> TxIDAHex, vout |-> 0, script |-> BadScriptHex, satoshis |-> 1],
      [prevTxID |-> BadByteHex, vout |-> 0, script |-> BadScriptHex, satoshis |-> 1] }

\* A script that is not pay-to-public-key-hash (OP_RETURN).
OpReturn == <<106>>

PubKeyA == <<2, 65>>

PubKeyB == <<3, 66>>

PubKeyC == <<2, 67>>

\* Previous transactions AddP2PKHInputsFromTx scans, with their identifiers.
PrevTxA ==
    [id      |-> TxIDA,
     outputs |-> << [Satoshis |-> 1, LockingScript |-> LockA],
                    [Satoshis |-> 2, LockingScript |-> OpReturn],
                    [Satoshis |-> 1, LockingScript |-> LockA] >>]

PrevTxB ==
    [id      |-> TxIDB,
     outputs |-> << [Satoshis |-> 1, LockingScript |-> LockA],
                    [Satoshis |-> 2, LockingScript |-> LockB] >>]

AddCalls ==
    { [pvsTx |-> PrevTxA, matchPK |-> PubKeyA],
      [pvsTx |-> PrevTxA, matchPK |-> PubKeyB],
      [pvsTx |-> PrevTxB, matchPK |-> PubKeyB],
      [pvsTx |-> PrevTxB, matchPK |-> PubKeyC] }

ErrHexInvalidByte == "encoding/hex: invalid byte"

ErrHexLength == "encoding/hex: odd length hex string"

ErrNotP2PKH == "ErrNotP2PKH"

\* Sequence numbers a caller may store in an input after adding it.
SequenceChoices == {<<0, 0>>, <<0, 1>>}

OutputChoices == {<<>>, <<2>>, <<1, 2>>}

\* Fee policies: satoshis charged per input and per output of the shape.
FeeQuotes == [perInput : {0, 1}, perOutput : {0, 1}]

Batches == UNION {[1..n -> UTXOs] : n \in 0..MaxBatch}

NoCall == [hint |-> 0, utxos |-> <<>>, err |-> "not called"]

NoRet == [op |-> "none", err |-> Nil]

NoArgs == [idx |-> 0, flags |-> 0, unlocker |-> Nil]

NoFeeQuote == [perInput |-> 0, perOutput |-> 0]

Bump(n) == IF n < MaxCalls + 1 THEN n + 1 ELSE n

---------------------------------------------------------------------------
(* Pure helpers.                                                           *)

RECURSIVE SumSat(_)
SumSat(s) == IF s = <<>> THEN 0 ELSE Head(s).sat + SumSat(Tail(s))

RECURSIVE SumSeq(_)
SumSeq(s) == IF s = <<>> THEN 0 ELSE Head(s) + SumSeq(Tail(s))

RECURSIVE SumUTXOs(_)
SumUTXOs(s) == IF s = <<>> THEN 0 ELSE Head(s).Satoshis + SumUTXOs(Tail(s))

\* Sums stay far below 2^64 for the values of the model, so the uint64
\* additions of the code never wrap here.
TotalInputSatoshis(ins) == SumSat(ins)

TotalOutputSatoshis(outs) == SumSeq(outs)

\* Mutant: the new input is put in front of the list.
addInputAtFront(ins, input) == <<input>> \o ins

addInput(ins, input) == Append(ins, input)

\* Input.PreviousTxIDAdd: the identifier is accepted or refused as a whole,
\* by its length.
PreviousTxIDAdd(txid) == IF Len(txid) # 2 THEN ErrInvalidTxID ELSE Nil

\* Mutant: the new input is created with an unlocking script in its slot.
NewInputSigned(utxo) ==
    [txid   |-> utxo.TxID,
     vout   |-> utxo.Vout,
     sat    |-> utxo.Satoshis,
     script |-> utxo.LockingScript,
     seq    |-> DefaultSequenceNumber,
     unlock |-> "sigA"]

\* Mutant: the new input gets sequence number 0.
NewInputZeroSequence(utxo) ==
    [txid   |-> utxo.TxID,
     vout   |-> utxo.Vout,
     sat    |-> utxo.Satoshis,
     script |-> utxo.LockingScript,
     seq    |-> <<0, 0>>,
     unlock |-> NoScript]

NewInput(utxo) ==
    [txid   |-> utxo.TxID,
     vout   |-> utxo.Vout,
     sat    |-> utxo.Satoshis,
     script |-> utxo.LockingScript,
     seq    |-> DefaultSequenceNumber,
     unlock |-> NoScript]

\* FromUTXOs: appends in order and stops at the first refused identifier,
\* keeping what was appended before it.
RECURSIVE FromUTXOs(_, _)
FromUTXOs(ins, utxos) ==
    IF utxos = <<>> THEN [inputs |-> ins, err |-> Nil]
    ELSE LET e == PreviousTxIDAdd(Head(utxos).TxID)
         IN  IF e # Nil THEN [inputs |-> ins, err |-> e]
             ELSE FromUTXOs(addInput(ins, NewInput(Head(utxos))), Tail(utxos))

\* encoding/hex fromHexChar: the value of a digit, 16 for any other character.
HexLower == <<"0", "1", "2", "3", "4", "5", "6", "7", "8", "9",
              "a", "b", "c", "d", "e", "f">>

HexUpper == <<"0", "1", "2", "3", "4", "5", "6", "7", "8", "9",
              "A", "B", "C", "D", "E", "F">>

fromHexChar(c) ==
    IF \E k \in 1..16 : HexLower[k] = c
    THEN (CHOOSE k \in 1..16 : HexLower[k] = c) - 1
    ELSE IF \E k \in 1..16 : HexUpper[k] = c
         THEN (CHOOSE k \in 1..16 : HexUpper[k] = c) - 1
         ELSE 16

\* hex.DecodeString: two digits make a byte, high digit first; an invalid
\* character is reported before an odd length.
RECURSIVE DecodeString(_)
DecodeString(text) ==
    IF text = <<>> THEN [bytes |-> <<>>, err |-> Nil]
    ELSE IF Len(text) = 1
         THEN [bytes |-> <<>>,
               err   |-> IF fromHexChar(text[1]) > 15
                         THEN ErrHexInvalidByte ELSE ErrHexLength]
         ELSE LET a == fromHexChar(text[1])
                  b == fromHexChar(text[2])
              IN  IF a > 15 \/ b > 15
                  THEN [bytes |-> <<>>, err |-> ErrHexInvalidByte]
                  ELSE LET rest == DecodeString(Tail(Tail(text)))
                       IN  IF rest.err # Nil THEN rest
                           ELSE [bytes |-> <<a * 16 + b>> \o rest.bytes,
                                 err   |-> Nil]

\* script.NewFromHexString: the script whose bytes the text encodes.
NewFromHexString(text) == DecodeString(text)

\* Mutant: the decoding errors are dropped and whatever was decoded is used.
FromIgnoringDecodeErrors(ins, a) ==
    FromUTXOs(ins, << [TxID          |-> DecodeString(a.prevTxID).bytes,
                       Vout          |-> a.vout,
                       Satoshis      |-> a.satoshis,
                       LockingScript |-> NewFromHexString(a.script).bytes] >>)

\* From: the script is decoded first, then the identifier; FromUTXOs adds
\* the one previous output.
From(ins, a) ==
    LET pts == NewFromHexString(a.script)
    IN  IF pts.err # Nil THEN [inputs |-> ins, err |-> pts.err]
        ELSE LET pti == DecodeString(a.prevTxID)
             IN  IF pti.err # Nil THEN [inputs |-> ins, err |-> pti.err]
                 ELSE FromUTXOs(ins, << [TxID          |-> pti.bytes,
                                         Vout          |-> a.vout,
                                         Satoshis      |-> a.satoshis,
                                         LockingScript |-> pts.bytes] >>)

\* Script.PublicKeyHash: the hash a pay-to-public-key-hash script pays to.
PublicKeyHash(script) ==
    IF Len(script) = 6 /\ script[1] = 118 /\ script[2] = 169 /\ script[3] = 1
    THEN [hash |-> <<script[4]>>, err |-> Nil]
    ELSE [hash |-> <<>>, err |-> ErrNotP2PKH]

\* crypto.Hash160, as a table on the keys of the model.
Hash160(pk) ==
    IF pk = PubKeyA THEN <<10>> ELSE IF pk = PubKeyB THEN <<11>> ELSE <<12>>

\* Transaction.TxIDBytes of a previous transaction.
TxIDBytes(pvsTx) == pvsTx.id

\* AddP2PKHInputsFromTx from output k on (k counts from 1 here; Vout is k - 1).
RECURSIVE AddP2PKHInputsFrom(_, _, _, _)
AddP2PKHInputsFrom(ins, pvsTx, matchPK, k) ==
    IF k > Len(pvsTx.outputs) THEN [inputs |-> ins, err |-> Nil]
    ELSE LET utxo == pvsTx.outputs[k]
             h    == PublicKeyHash(utxo.LockingScript)
         IN  IF h.err # Nil THEN [inputs |-> ins, err |-> h.err]
             ELSE IF h.hash = Hash160(matchPK)
                  THEN LET r == FromUTXOs(ins,
                                  << [TxID          |-> TxIDBytes(pvsTx),
                                      Vout          |-> k - 1,
                                      Satoshis      |-> utxo.Satoshis,
                                      LockingScript |-> utxo.LockingScript] >>)
                       IN  IF r.err # Nil THEN r
                           ELSE AddP2PKHInputsFrom(r.inputs, pvsTx, matchPK, k + 1)
                  ELSE AddP2PKHInputsFrom(ins, pvsTx, matchPK, k + 1)

\* Mutant: a failed scan takes back what it had appended.
AddP2PKHInputsFromTxRollback(ins, pvsTx, matchPK) ==
    LET r == AddP2PKHInputsFrom(ins, pvsTx, matchPK, 1)
    IN  IF r.err # Nil THEN [inputs |-> ins, err |-> r.err] ELSE r

AddP2PKHInputsFromTx(ins, pvsTx, matchPK) ==
    AddP2PKHInputsFrom(ins, pvsTx, matchPK, 1)

\* util.ReverseBytes
RECURSIVE ReverseBytes(_)
ReverseBytes(b) ==
    IF b = <<>> THEN <<>> ELSE Append(ReverseBytes(Tail(b)), Head(b))

\* binary.LittleEndian.PutUint32 of the uint32 with 16-bit halves high, low.
PutUint32Halves(high, low) ==
    <<low % 256, low \div 256, high % 256, high \div 256>>

\* binary.LittleEndian.PutUint32 of a uint32 below 2^31.
PutUint32(n) == PutUint32Halves(n \div 65536, n % 65536)

\* crypto.Sha256d, taken as an injective function of the bytes hashed.
Sha256d(buf) == [sha256d |-> buf]

\* Input.PreviousTxID
PreviousTxID(in) == in.txid

\* The buffer PreviousOutHash hashes: per input, the reversed identifier and
\* the output index.
RECURSIVE OutpointBytes(_)
OutpointBytes(ins) ==
    IF ins = <<>> THEN <<>>
    ELSE ReverseBytes(PreviousTxID(Head(ins))) \o PutUint32(Head(ins).vout)
         \o OutpointBytes(Tail(ins))

\* Mutant: the buffer is started again for every input.
PreviousOutHashLastOnly(ins) ==
    Sha256d(IF ins = <<>> THEN <<>> ELSE OutpointBytes(<<ins[Len(ins)]>>))

PreviousOutHash(ins) == Sha256d(OutpointBytes(ins))

\* The buffer SequenceHash hashes: per input, the sequence number.
RECURSIVE SequenceBytes(_)
SequenceBytes(ins) ==
    IF ins = <<>> THEN <<>>
    ELSE PutUint32Halves(Head(ins).seq[1], Head(ins).seq[2])
         \o SequenceBytes(Tail(ins))

SequenceHash(ins) == Sha256d(SequenceBytes(ins))

\* The estimated fee of the transaction's current shape under a fee quote.
EstimateFee(ins, outs, q) == q.perInput * Len(ins) + q.perOutput * Len(outs)

\* estimateDeficit: outputs + fee - inputs, clamped to zero.
estimateDeficit(ins, outs, q) ==
    LET need == TotalOutputSatoshis(outs) + EstimateFee(ins, outs, q)
        have == TotalInputSatoshis(ins)
    IN  IF need > have THEN need - have ELSE 0

\* Mutant: every error of next is taken for exhaustion.
IsErrNoUTXOAnyError(err) == err # Nil

\* Mutant: the sentinel compared with ==, which misses a wrapped sentinel.
IsErrNoUTXOByEquality(err) == err = ErrNoUTXO

\* errors.Is(err, ErrNoUTXO)
IsErrNoUTXO(err) == err \in {ErrNoUTXO, WrappedNoUTXO}

\* Mutant: the batch's value subtracted from the old deficit, the fee not
\* estimated again.
NextDeficitSubtract(d, ins, outs, q, utxos) ==
    IF d > SumUTXOs(utxos) THEN d - SumUTXOs(utxos) ELSE 0

\* The deficit after a batch was appended: estimated again on the new inputs.
NextDeficit(d, ins, outs, q, utxos) == estimateDeficit(ins, outs, q)

\* Mutant: the test after the loop left out.
FundReturnAlwaysNil(d) == Nil

\* The test after the loop of Fund.
FundReturn(d) == IF d # 0 THEN ErrInsufficientFunds ELSE Nil

---------------------------------------------------------------------------
(* State.                                                                  *)

Init ==
    /\ inputs = <<>>
    /\ outputs \in OutputChoices
    /\ pc = "idle"
    /\ ret = NoRet
    /\ pre = <<>>
    /\ fq = NoFeeQuote
    /\ deficit = 0
    /\ calls = 0
    /\ tick = FALSE
    /\ feeCalls = 0
    /\ first = NoCall
    /\ last = NoCall
    /\ i = 0
    /\ resolved = <<>>
    /\ unlocked = <<>>
    /\ args = NoArgs

\* The locals and records of a call are dead once the caller has its result.
ResetFund ==
    /\ fq' = NoFeeQuote
    /\ deficit' = 0
    /\ calls' = 0
    /\ tick' = FALSE
    /\ feeCalls' = 0
    /\ first' = NoCall
    /\ last' = NoCall

ResetFill ==
    /\ i' = 0
    /\ resolved' = <<>>
    /\ unlocked' = <<>>
    /\ args' = NoArgs

---------------------------------------------------------------------------
(* Input ingestion called by the caller.                                   *)

CallFromUTXOs ==
    /\ pc = "idle"
    /\ \E utxos \in Batches :
          /\ Len(inputs) + Len(utxos) <= MaxInputs
          /\ LET r == FromUTXOs(inputs, utxos)
             IN  /\ inputs' = r.inputs
                 /\ ret' = [op |-> "FromUTXOs", err |-> r.err]
                 /\ args' = [utxos |-> utxos]
    /\ pc' = "returned"
    /\ pre' = inputs
    /\ UNCHANGED <<outputs, fundVars, i, resolved, unlocked>>

CallFrom ==
    /\ pc = "idle"
    /\ Len(inputs) < MaxInputs
    /\ \E a \in FromCalls :
          LET r == From(inputs, a)
          IN  /\ inputs' = r.inputs
              /\ ret' = [op |-> "From", err |-> r.err]
              /\ args' = a
    /\ pc' = "returned"
    /\ pre' = inputs
    /\ UNCHANGED <<outputs, fundVars, i, resolved, unlocked>>

CallAddP2PKHInputsFromTx ==
    /\ pc = "idle"
    /\ \E a \in AddCalls :
          LET r == AddP2PKHInputsFromTx(inputs, a.pvsTx, a.matchPK)
          IN  /\ Len(r.inputs) <= MaxInputs
              /\ inputs' = r.inputs
              /\ ret' = [op |-> "AddP2PKHInputsFromTx", err |-> r.err]
              /\ args' = a
    /\ pc' = "returned"
    /\ pre' = inputs
    /\ UNCHANGED <<outputs, fundVars, i, resolved, unlocked>>

CallPreviousOutHash ==
    /\ pc = "idle"
    /\ ret' = [op |-> "PreviousOutHash", err |-> Nil,
               hash |-> PreviousOutHash(inputs)]
    /\ pc' = "returned"
    /\ pre' = inputs
    /\ UNCHANGED <<inputs, outputs, fundVars, fillVars>>

CallSequenceHash ==
    /\ pc = "idle"
    /\ ret' = [op |-> "SequenceHash", err |-> Nil,
               hash |-> SequenceHash(inputs)]
    /\ pc' = "returned"
    /\ pre' = inputs
    /\ UNCHANGED <<inputs, outputs, fundVars, fillVars>>

\* The caller stores another sequence number in an input it added.
SetSequenceNumber ==
    /\ pc = "idle"
    /\ \E k \in 1..Len(inputs), s \in SequenceChoices :
          inputs' = [inputs EXCEPT ![k].seq = s]
    /\ UNCHANGED <<outputs, pc, ret, pre, fundVars, fillVars>>

---------------------------------------------------------------------------
(* Fund.                                                                   *)

\* Entry: the first estimateDeficit, which may fail.
FundStart ==
    /\ pc = "idle"
    /\ \E q \in FeeQuotes, feeOK \in BOOLEAN :
          /\ fq' = q
          /\ IF feeOK
             THEN /\ deficit' = estimateDeficit(inputs, outputs, q)
                  /\ pc' = "fund"
                  /\ ret' = NoRet
             ELSE /\ deficit' = 0
                  /\ pc' = "returned"
                  /\ ret' = [op |-> "Fund", err |-> ErrFeeQuote]
    /\ pre' = inputs
    /\ feeCalls' = 1
    /\ UNCHANGED <<inputs, outputs, calls, tick, first, last, fillVars>>

\* One invocation of next, recorded with the hint it was given.
Invoked(utxos, err) ==
    LET c == [hint |-> deficit, utxos |-> utxos, err |-> err]
    IN  /\ calls' = Bump(calls)
        /\ tick' = ~tick
        /\ last' = c
        /\ first' = IF calls = 0 THEN c ELSE first

\* Mutant: an error of next is skipped and the loop goes on (a retry).
FundNextErrContinue ==
    /\ pc = "fund"
    /\ deficit # 0
    /\ \E e \in {ErrNoUTXO, WrappedNoUTXO} \cup SourceFailures :
          Invoked(<<>>, e)
    /\ UNCHANGED <<inputs, outputs, pc, ret, pre, fq, deficit, feeCalls,
                   fillVars>>

\* A loop iteration in which next returns an error: exhaustion breaks out of
\* the loop to the final test, anything else is returned as it is.
FundNextErr ==
    /\ pc = "fund"
    /\ deficit # 0
    /\ \E e \in {ErrNoUTXO, WrappedNoUTXO} \cup SourceFailures :
          /\ Invoked(<<>>, e)
          /\ ret' = [op  |-> "Fund",
                     err |-> IF IsErrNoUTXO(e) THEN FundReturn(deficit) ELSE e]
    /\ pc' = "returned"
    /\ UNCHANGED <<inputs, outputs, pre, fq, deficit, feeCalls, fillVars>>

\* Mutant: the loop gives up after MaxCalls invocations.
FundNextUTXOsCapped ==
    /\ pc = "fund"
    /\ deficit # 0
    /\ IF calls >= MaxCalls
       THEN /\ pc' = "returned"
            /\ ret' = [op |-> "Fund", err |-> ErrInsufficientFunds]
            /\ UNCHANGED <<inputs, fundVars>>
       ELSE \E utxos \in Batches :
               /\ Len(inputs) + Len(utxos) <= MaxInputs
               /\ Invoked(utxos, Nil)
               /\ LET r == FromUTXOs(inputs, utxos)
                  IN  /\ inputs' = r.inputs
                      /\ IF r.err # Nil
                         THEN /\ pc' = "returned"
                              /\ ret' = [op |-> "Fund", err |-> r.err]
                              /\ UNCHANGED <<deficit, feeCalls>>
                         ELSE /\ feeCalls' = Bump(feeCalls)
                              /\ deficit' = NextDeficit(deficit, r.inputs,
                                                        outputs, fq, utxos)
                              /\ UNCHANGED <<pc, ret>>
    /\ UNCHANGED <<outputs, pre, fq, fillVars>>

\* A loop iteration in which next returns UTXOs: they are appended and the
\* deficit is estimated again.
FundNextUTXOs ==
    /\ pc = "fund"
    /\ deficit # 0
    /\ \E utxos \in Batches, feeOK \in BOOLEAN :
          /\ Len(inputs) + Len(utxos) <= MaxInputs
          /\ Invoked(utxos, Nil)
          /\ LET r == FromUTXOs(inputs, utxos)
             IN  /\ inputs' = r.inputs
                 /\ IF r.err # Nil
                    THEN /\ pc' = "returned"
                         /\ ret' = [op |-> "Fund", err |-> r.err]
                         /\ UNCHANGED <<deficit, feeCalls>>
                    ELSE /\ feeCalls' = Bump(feeCalls)
                         /\ IF feeOK
                            THEN /\ deficit' = NextDeficit(deficit, r.inputs,
                                                         outputs, fq, utxos)
                                 /\ UNCHANGED <<pc, ret>>
                            ELSE /\ deficit' = 0
                                 /\ pc' = "returned"
                                 /\ ret' = [op |-> "Fund", err |-> ErrFeeQuote]
    /\ UNCHANGED <<outputs, pre, fq, fillVars>>

\* The loop condition is false: the final test decides the result.
FundExit ==
    /\ pc = "fund"
    /\ deficit = 0
    /\ pc' = "returned"
    /\ ret' = [op |-> "Fund", err |-> FundReturn(deficit)]
    /\ UNCHANGED <<inputs, outputs, pre, fundVars, fillVars>>

---------------------------------------------------------------------------
(* Signing.                                                                *)

\* A nil element of tx.Inputs.
NilInput == [nil |-> TRUE]

\* fmt.Errorf("no input at index %d", index)
NoInputAtIndex(index) == "no input at index " \o ToString(index)

\* Mutant: the script is stored in a copy of the input, not in tx.Inputs.
InsertInputUnlockingScriptOnCopy(ins, index, s) ==
    IF index >= Len(ins)
    THEN [inputs |-> ins, err |-> Panic]
    ELSE [inputs |-> ins, err |-> Nil]

\* InsertInputUnlockingScript.  tx.Inputs[index] is evaluated first: an
\* index at or beyond len(tx.Inputs) is a run-time panic.  Every element of
\* tx.Inputs was appended by addInput as a non-nil *Input, so an index in
\* range always takes the branch that stores the script.
InsertInputUnlockingScript(ins, index, s) ==
    IF index >= Len(ins)
    THEN [inputs |-> ins, err |-> Panic]
    ELSE IF ins[index + 1] # NilInput
         THEN [inputs |-> [ins EXCEPT ![index + 1].unlock = s], err |-> Nil]
         ELSE [inputs |-> ins, err |-> NoInputAtIndex(index)]

\* Mutant: the default policy overrides the caller's flag set.
DefaultFlagsAlways(flags) == AllForkID

\* params.SigHashFlags after the defaulting of FillInput.
DefaultFlags(flags) == IF flags = 0 THEN AllForkID ELSE flags

\* Mutant: no nil test; the call through the nil interface panics.
FillInputNoNilCheck(ins, unlocker, params, out) ==
    LET p == [idx    |-> params.idx,
              flags  |-> DefaultFlags(params.flags),
              script |-> out.script,
              err    |-> out.err]
    IN  IF unlocker = Nil
        THEN [inputs |-> ins, err |-> Panic, call |-> <<p>>]
        ELSE IF out.err # Nil
             THEN [inputs |-> ins, err |-> out.err, call |-> <<p>>]
             ELSE LET r == InsertInputUnlockingScript(ins, p.idx, out.script)
                  IN  [inputs |-> r.inputs, err |-> r.err, call |-> <<p>>]

\* FillInput, given what the unlocker returns if it is invoked.  call is the
\* sequence of invocations of unlocker.UnlockingScript made (none or one),
\* each with the parameters it received and what it returned.
FillInput(ins, unlocker, params, out) ==
    IF unlocker = Nil
    THEN [inputs |-> ins, err |-> ErrNoUnlocker, call |-> <<>>]
    ELSE LET p == [idx    |-> params.idx,
                   flags  |-> DefaultFlags(params.flags),
                   script |-> out.script,
                   err    |-> out.err]
         IN  IF out.err # Nil
             THEN [inputs |-> ins, err |-> out.err, call |-> <<p>>]
             ELSE LET r == InsertInputUnlockingScript(ins, p.idx, out.script)
                  IN  [inputs |-> r.inputs, err |-> r.err, call |-> <<p>>]

\* A panic unwinds the caller; any returned value leaves it running.
PcAfter(err) == IF err = Panic THEN "panicked" ELSE "returned"

CallInsertInputUnlockingScript ==
    /\ pc = "idle"
    /\ \E index \in 0..MaxInputs, s \in Proofs :
          LET r == InsertInputUnlockingScript(inputs, index, s)
          IN  /\ inputs' = r.inputs
              /\ ret' = [op |-> "InsertInputUnlockingScript", err |-> r.err]
              /\ pc' = PcAfter(r.err)
              /\ args' = [idx |-> index, flags |-> 0, unlocker |-> Nil]
    /\ pre' = inputs
    /\ UNCHANGED <<outputs, fundVars, i, resolved, unlocked>>

CallFillInput ==
    /\ pc = "idle"
    /\ \E u \in Unlockers \cup {Nil}, index \in 0..MaxInputs,
          flags \in FlagChoices, out \in UnlockerResults :
          LET r == FillInput(inputs, u, [idx |-> index, flags |-> flags], out)
          IN  /\ inputs' = r.inputs
              /\ ret' = [op |-> "FillInput", err |-> r.err]
              /\ pc' = PcAfter(r.err)
              /\ unlocked' = r.call
              /\ args' = [idx |-> index, flags |-> flags, unlocker |-> u]
    /\ pre' = inputs
    /\ UNCHANGED <<outputs, fundVars, i, resolved>>

\* FillAllInputs is entered: the range loop starts at index 0.
FillAllStart ==
    /\ pc = "idle"
    /\ pc' = "fill"
    /\ pre' = inputs
    /\ UNCHANGED <<inputs, outputs, ret, fundVars, fillVars>>

\* Mutant: a failure at input i is skipped and the loop goes on.
FillAllStepSkip ==
    /\ pc = "fill"
    /\ i < Len(inputs)
    /\ \E g \in GetterResults, out \in UnlockerResults :
          /\ resolved' = Append(resolved, [idx      |-> i,
                                           script   |-> inputs[i + 1].script,
                                           unlocker |-> g.unlocker,
                                           err      |-> g.err])
          /\ IF g.err # Nil
             THEN UNCHANGED <<inputs, unlocked>>
             ELSE LET r == FillInput(inputs, g.unlocker,
                                     [idx |-> i, flags |-> AllForkID], out)
                  IN  /\ inputs' = r.inputs
                      /\ unlocked' = unlocked \o r.call
    /\ i' = i + 1
    /\ UNCHANGED <<outputs, pc, ret, pre, fundVars, args>>

\* One iteration of the loop: resolve the unlocker of input i, then FillInput.
FillAllStep ==
    /\ pc = "fill"
    /\ i < Len(inputs)
    /\ \E g \in GetterResults, out \in UnlockerResults :
          /\ resolved' = Append(resolved, [idx      |-> i,
                                           script   |-> inputs[i + 1].script,
                                           unlocker |-> g.unlocker,
                                           err      |-> g.err])
          /\ IF g.err # Nil
             THEN /\ pc' = "returned"
                  /\ ret' = [op |-> "FillAllInputs", err |-> g.err]
                  /\ UNCHANGED <<inputs, unlocked, i>>
             ELSE LET r == FillInput(inputs, g.unlocker,
                                     [idx |-> i, flags |-> AllForkID], out)
                  IN  /\ inputs' = r.inputs
                      /\ unlocked' = unlocked \o r.call
                      /\ IF r.err # Nil
                         THEN /\ pc' = PcAfter(r.err)
                              /\ ret' = [op |-> "FillAllInputs", err |-> r.err]
                              /\ i' = i
                         ELSE /\ i' = i + 1
                              /\ UNCHANGED <<pc, ret>>
    /\ UNCHANGED <<outputs, pre, fundVars, args>>

\* The range is exhausted.
FillAllExit ==
    /\ pc = "fill"
    /\ i >= Len(inputs)
    /\ pc' = "returned"
    /\ ret' = [op |-> "FillAllInputs", err |-> Nil]
    /\ UNCHANGED <<inputs, outputs, pre, fundVars, fillVars>>

---------------------------------------------------------------------------
(* The caller has the result of a call and is free to make the next one.   *)

Resume ==
    /\ pc = "returned"
    /\ pc' = "idle"
    /\ ret' = NoRet
    /\ pre' = <<>>
    /\ ResetFund
    /\ ResetFill
    /\ UNCHANGED <<inputs, outputs>>

---------------------------------------------------------------------------

Next ==
    \/ CallFromUTXOs
    \/ CallFrom
    \/ CallAddP2PKHInputsFromTx
    \/ CallPreviousOutHash
    \/ CallSequenceHash
    \/ FundStart
    \/ FundNextErr
    \/ FundNextUTXOs
    \/ FundExit
    \/ CallInsertInputUnlockingScript
    \/ CallFillInput
    \/ FillAllStart
    \/ FillAllStep
    \/ FillAllExit
    \/ Resume

Spec == Init /\ [][Next]_vars

\* Funding alone, with the progress the code guarantees: a Fund call in
\* progress takes its next step whenever the source and the estimator return.
FundStep == FundNextErr \/ FundNextUTXOs \/ FundExit

LiveNext ==
    \/ CallFromUTXOs
    \/ FundStart
    \/ FundNextErr
    \/ FundNextUTXOs
    \/ FundExit
    \/ Resume

LiveSpec == Init /\ [][LiveNext]_vars /\ WF_vars(FundStep)

\* Funding with a source that never signals exhaustion or failure and whose
\* sets never bring the deficit to zero: every set it returns is well-formed,
\* the estimator answers, and the deficit computed after the set is nonzero.
\* A Fund call in progress takes its next step whenever such a source returns.
StubbornStep ==
    /\ FundNextUTXOs
    /\ \A k \in 1..Len(last'.utxos) : PreviousTxIDAdd(last'.utxos[k].TxID) = Nil
    /\ ret'.err # ErrFeeQuote
    /\ pc' = "fund" => deficit' # 0

StubbornNext ==
    \/ CallFromUTXOs
    \/ FundStart
    \/ StubbornStep
    \/ FundExit
    \/ Resume

StubbornSpec == Init /\ [][StubbornNext]_vars /\ WF_vars(StubbornStep)

\* The digests alone, on input lists built by FromUTXOs whose sequence numbers
\* the caller may have changed.
HashNext ==
    \/ CallFromUTXOs
    \/ SetSequenceNumber
    \/ CallPreviousOutHash
    \/ CallSequenceHash
    \/ Resume

HashSpec == Init /\ [][HashNext]_vars

---------------------------------------------------------------------------
(* Properties.                                                             *)

FundReturned == pc = "returned" /\ ret.op = "Fund"

Exhaustion == {ErrNoUTXO, WrappedNoUTXO}

\* C1: whenever Fund returns nil, the inputs cover the outputs plus the fee
\* estimated for the final shape, i.e. the deficit estimated on the final
\* input and output lists is zero, whatever the fee quote and the source did.
C1_FundedOnSuccess ==
    (FundReturned /\ ret.err = Nil) =>
        /\ TotalInputSatoshis(inputs) >=
               TotalOutputSatoshis(outputs) + EstimateFee(inputs, outputs, fq)
        /\ estimateDeficit(inputs, outputs, fq) = 0

\* Fund returned nil after two invocations of the source appended inputs
\* under a fee quote that charges per input.
C1_Witness ==
    /\ FundReturned
    /\ ret.err = Nil
    /\ calls = 2
    /\ Len(inputs) >= Len(pre) + 2
    /\ fq.perInput = 1

\* The first invocation of next returned well-formed UTXOs whose satoshis sum
\* to exactly the hint, and the fee estimator did not fail afterwards.
FirstExact ==
    /\ ret.op \in {"none", "Fund"}
    /\ calls >= 1
    /\ first.err = Nil
    /\ SumUTXOs(first.utxos) = first.hint
    /\ \A k \in 1..Len(first.utxos) : PreviousTxIDAdd(first.utxos[k].TxID) = Nil
    /\ ~(pc = "returned" /\ ret.err = ErrFeeQuote)

\* The inputs after the first batch was appended.
RECURSIVE NewInputs(_)
NewInputs(utxos) ==
    IF utxos = <<>> THEN <<>>
    ELSE <<NewInput(Head(utxos))>> \o NewInputs(Tail(utxos))

FeeBeforeFirst == EstimateFee(pre, outputs, fq)

FeeAfterFirst == EstimateFee(pre \o NewInputs(first.utxos), outputs, fq)

\* C2 as stated (read in its favour: well-formed UTXOs, no estimator
\* failure): a first batch summing to exactly the hint ends Fund with nil
\* after exactly one invocation of the source and a zero deficit.
C2_Original ==
    (FirstExact /\ pc \in {"fund", "returned"}) =>
        /\ calls = 1
        /\ deficit = 0
        /\ pc = "returned" => ret.err = Nil

\* C2 amended: a first batch of well-formed UTXOs summing to exactly the
\* hint ends Fund with nil after exactly one invocation and a zero deficit
\* when the fee estimated with the batch appended does not exceed the fee
\* estimated before; otherwise the deficit estimated after the batch is the
\* fee increase, which is not zero, so the loop goes on.
C2_ExactBatchUpToFee ==
    (FirstExact /\ pc \in {"fund", "returned"}) =>
        /\ FeeAfterFirst <= FeeBeforeFirst =>
               /\ calls = 1
               /\ deficit = 0
               /\ inputs = pre \o NewInputs(first.utxos)
               /\ pc = "returned" => ret.err = Nil
        /\ (FeeAfterFirst > FeeBeforeFirst /\ calls = 1) =>
               /\ pc = "fund"
               /\ deficit = FeeAfterFirst - FeeBeforeFirst
               /\ deficit # 0

\* Both cases of the amended claim are reached: an exact first batch that
\* raises the fee and leaves the raise as the deficit.
C2_Witness ==
    /\ FirstExact
    /\ pc = "fund"
    /\ calls = 1
    /\ first.hint = 2
    /\ deficit = 1
    /\ FeeAfterFirst = FeeBeforeFirst + 1

\* C3: when the source signals exhaustion on its first call (the deficit
\* being nonzero), Fund returns ErrInsufficientFunds; and Fund never returns
\* ErrNoUTXO, bare or wrapped, as its own result.
C3_ExhaustionIsInsufficientFunds ==
    FundReturned =>
        /\ ret.err \notin Exhaustion
        /\ (calls = 1 /\ first.err \in Exhaustion) =>
               (first.hint # 0 /\ ret.err = ErrInsufficientFunds)

\* The source signalled exhaustion, wrapped, on its first call.
C3_Witness ==
    /\ FundReturned
    /\ calls = 1
    /\ first.err = WrappedNoUTXO
    /\ ret.err = ErrInsufficientFunds

\* C4: the step in which the source returns a failure other than exhaustion
\* returns that very failure from Fund, appends no input, removes none, and
\* invokes neither the source nor the fee estimator again.
C4_SourceFailurePropagates ==
    [][(pc = "fund" /\ last'.err \in SourceFailures) =>
          /\ pc' = "returned"
          /\ ret' = [op |-> "Fund", err |-> last'.err]
          /\ inputs' = inputs
          /\ feeCalls' = feeCalls
          /\ calls' = Bump(calls)]_vars

\* The source failed on its second call, after a first batch was appended.
C4_Witness ==
    /\ FundReturned
    /\ ret.err = "ErrCancelled"
    /\ last.err = "ErrCancelled"
    /\ calls = 2
    /\ Len(inputs) > Len(pre)

\* C5: a Fund call that never returns is one in which, from some point on,
\* the deficit at the loop head is never zero and the source never signals
\* exhaustion or a failure; with a source that does one or the other, every
\* Fund call returns.
C5_FundTerminates ==
    \/ []<>(pc # "fund")
    \/ <>[](pc = "fund" /\ deficit # 0 /\ last.err \notin Exhaustion \cup SourceFailures)

\* Fund returned because the source signalled exhaustion on a later call.
C5_Witness ==
    /\ FundReturned
    /\ calls = 2
    /\ last.err = ErrNoUTXO
    /\ first.err = Nil
    /\ ret.err = ErrInsufficientFunds

FillAllRunning ==
    \/ pc = "fill"
    \/ pc \in {"returned", "panicked"} /\ ret.op = "FillAllInputs"

FillAllReturned == pc = "returned" /\ ret.op = "FillAllInputs"

\* The k-th invocation of ug.Unlocker returned a capability and no error.
ResolvedOK(k) == resolved[k].err = Nil /\ resolved[k].unlocker # Nil

\* The unlocker was invoked for input k - 1 and returned a script.
SignedOK(k) ==
    \E m \in 1..Len(unlocked) : unlocked[m].idx = k - 1 /\ unlocked[m].err = Nil

\* Resolution runs over the inputs in ascending order, once each, with the
\* input's own previous locking script, and reaches them all on success.
ResolvedInOrder ==
    /\ Len(resolved) <= Len(inputs)
    /\ \A k \in 1..Len(resolved) :
          /\ resolved[k].idx = k - 1
          /\ resolved[k].script = inputs[k].script
    /\ (FillAllReturned /\ ret.err = Nil) => Len(resolved) = Len(inputs)

\* C6 as stated: resolution once per input in ascending order with the
\* input's own locking script, and a populated unlocking slot for every input
\* whose resolution succeeded.
C6_Original ==
    FillAllReturned =>
        /\ ResolvedInOrder
        /\ \A k \in 1..Len(resolved) :
              ResolvedOK(k) => inputs[k].unlock # NoScript

\* C6 amended: resolution once per input reached, in ascending order, with
\* the input's own locking script; the unlocking slot holds the unlocker's
\* script for every input whose resolution succeeded and whose unlocker
\* returned a script.
C6_ResolvedInOrderAndStored ==
    FillAllRunning =>
        /\ ResolvedInOrder
        /\ \A k \in 1..Len(resolved) :
              (ResolvedOK(k) /\ SignedOK(k)) =>
                  /\ inputs[k].unlock \in Proofs
                  /\ inputs[k].unlock = unlocked[k].script

\* The unlocker of the second input failed after its resolution succeeded:
\* the first slot is populated, the second is not.
C6_Witness ==
    /\ FillAllReturned
    /\ ret.err = ErrSign
    /\ Len(resolved) = 2
    /\ ResolvedOK(1) /\ ResolvedOK(2)
    /\ resolved[1].script # resolved[2].script
    /\ inputs[1].unlock \in Proofs
    /\ inputs[2].unlock = NoScript

\* Resolution or signing failed at the k-th iteration (input k - 1).
FailedAt(k) ==
    \/ resolved[k].err # Nil
    \/ resolved[k].unlocker = Nil
    \/ \E m \in 1..Len(unlocked) : unlocked[m].idx = k - 1 /\ unlocked[m].err # Nil

\* The failure of the k-th iteration.
FailureAt(k) ==
    IF resolved[k].err # Nil THEN resolved[k].err
    ELSE IF resolved[k].unlocker = Nil THEN ErrNoUnlocker
    ELSE unlocked[Len(unlocked)].err

\* C7: a failure of resolution or signing at input k ends FillAllInputs at
\* once with that failure: nothing is invoked for a later input, inputs k and
\* above are as they were, and inputs below k keep the scripts this call
\* stored.
C7_FailureAborts ==
    FillAllRunning =>
        \A k \in 1..Len(resolved) :
            FailedAt(k) =>
                /\ pc = "returned"
                /\ ret.err = FailureAt(k)
                /\ k = Len(resolved)
                /\ i = k - 1
                /\ \A m \in 1..Len(unlocked) : unlocked[m].idx <= k - 1
                /\ Len(inputs) = Len(pre)
                /\ \A j \in k..Len(inputs) : inputs[j] = pre[j]
                /\ \A j \in 1..(k - 1) :
                      /\ unlocked[j].err = Nil
                      /\ inputs[j] = [pre[j] EXCEPT !.unlock = unlocked[j].script]

\* Resolution failed at the third input, whose slot held a script before the
\* call; the first two inputs were signed by this call.
C7_Witness ==
    /\ FillAllReturned
    /\ ret.err = ErrResolve
    /\ Len(resolved) = 3
    /\ Len(unlocked) = 2
    /\ pre[3].unlock \in Proofs
    /\ inputs[3] = pre[3]
    /\ inputs[1].unlock # pre[1].unlock

InsertReturned ==
    pc \in {"returned", "panicked"} /\ ret.op = "InsertInputUnlockingScript"

\* C8 as stated: an index not below the input count makes
\* InsertInputUnlockingScript return an error that reports the index, without
\* a crash, and leaves the inputs unchanged.
C8_Claim ==
    (InsertReturned /\ args.idx >= Len(pre)) =>
        /\ pc = "returned"
        /\ ret.err = NoInputAtIndex(args.idx)
        /\ inputs = pre

FillInputReturned == pc \in {"returned", "panicked"} /\ ret.op = "FillInput"

\* C9: FillInput without an unlocker returns ErrNoUnlocker, invokes nothing
\* and changes nothing; in FillAllInputs a resolver that returns neither a
\* capability nor an error ends the call with ErrNoUnlocker at that input.
C9_NoUnlocker ==
    /\ (FillInputReturned /\ args.unlocker = Nil) =>
          /\ pc = "returned"
          /\ ret.err = ErrNoUnlocker
          /\ unlocked = <<>>
          /\ inputs = pre
    /\ FillAllRunning =>
          \A k \in 1..Len(resolved) :
              (resolved[k].err = Nil /\ resolved[k].unlocker = Nil) =>
                  /\ pc = "returned"
                  /\ ret.err = ErrNoUnlocker
                  /\ k = Len(resolved)
                  /\ Len(unlocked) = k - 1
                  /\ inputs[k] = pre[k]

\* FillInput was called without an unlocker on a transaction with inputs.
C9_Witness ==
    /\ FillInputReturned
    /\ args.unlocker = Nil
    /\ args.idx < Len(inputs)
    /\ ret.err = ErrNoUnlocker

\* A resolver returned neither a capability nor an error for the second input.
C9_WitnessFillAll ==
    /\ FillAllReturned
    /\ Len(resolved) = 2
    /\ resolved[2].err = Nil
    /\ resolved[2].unlocker = Nil
    /\ ret.err = ErrNoUnlocker

\* C10: the unlocker receives the caller's index unchanged and ALL|FORKID
\* when the caller's flag set is zero, the caller's flag set otherwise;
\* FillAllInputs passes each input's position and ALL|FORKID.
C10_UnlockerParams ==
    /\ (FillInputReturned /\ args.unlocker # Nil) =>
          /\ Len(unlocked) = 1
          /\ unlocked[1].idx = args.idx
          /\ args.flags = 0 => unlocked[1].flags = 65
          /\ args.flags # 0 => unlocked[1].flags = args.flags
    /\ FillAllRunning =>
          \A m \in 1..Len(unlocked) :
              /\ unlocked[m].idx = m - 1
              /\ unlocked[m].flags = 65

\* FillInput passed on a caller's flag set other than the default.
C10_Witness ==
    /\ FillInputReturned
    /\ args.unlocker # Nil
    /\ args.flags = 1
    /\ args.idx = 1
    /\ Len(inputs) >= 2
    /\ unlocked = <<[idx |-> 1, flags |-> 1, script |-> "sigB", err |-> Nil]>>
    /\ inputs[2].unlock = "sigB"

---------------------------------------------------------------------------
(* Input order.                                                            *)

\* The previous-output fields of an input.
PrevOut(in) ==
    [txid |-> in.txid, vout |-> in.vout, sat |-> in.sat, script |-> in.script]

\* C11: input order is append-only.  In every step of every operation
\* (From, FromUTXOs, AddP2PKHInputsFromTx, Fund, InsertInputUnlockingScript,
\* FillInput, FillAllInputs; successful, failed or panicking) the number of
\* inputs does not decrease and every input keeps its index and its
\* previous-output fields.
C11_AppendOnly ==
    [][ /\ Len(inputs') >= Len(inputs)
        /\ \A k \in 1..Len(inputs) : PrevOut(inputs'[k]) = PrevOut(inputs[k])
      ]_vars

\* A failed scan that appended one input behind an input of another previous
\* transaction that had been signed before.
C11_Witness ==
    /\ pc = "returned"
    /\ ret.op = "AddP2PKHInputsFromTx"
    /\ ret.err # Nil
    /\ Len(pre) >= 1
    /\ Len(inputs) = Len(pre) + 1
    /\ inputs[1].unlock # NoScript
    /\ inputs[1].txid # inputs[Len(inputs)].txid

---------------------------------------------------------------------------
(* From.                                                                   *)

FromReturned == pc = "returned" /\ ret.op = "From"

HexDigits == {"0", "1", "2", "3", "4", "5", "6", "7", "8", "9",
              "a", "b", "c", "d", "e", "f", "A", "B", "C", "D", "E", "F"}

\* Text that is not hexadecimal: an odd number of characters, or a character
\* that is no hexadecimal digit.
Malformed(text) ==
    \/ Len(text) % 2 = 1
    \/ \E k \in 1..Len(text) : text[k] \notin HexDigits

DecodingErrors == {ErrHexInvalidByte, ErrHexLength}

\* C12: From called with a malformed hex locking script or a malformed hex
\* transaction identifier returns a decoding error and leaves the input list
\* exactly as it was before the call.
C12_MalformedAddsNothing ==
    (FromReturned /\ (Malformed(args.script) \/ Malformed(args.prevTxID)))
        => (ret.err \in DecodingErrors /\ inputs = pre)

\* From returned after an identifier of odd length, the script being
\* well-formed, on a transaction that already had an input.
C12_Witness ==
    /\ FromReturned
    /\ ~Malformed(args.script)
    /\ Len(args.prevTxID) % 2 = 1
    /\ ret.err = ErrHexLength
    /\ Len(pre) >= 1

\* hex.EncodeToString: two lower-case digits per byte, high digit first.
RECURSIVE EncodeToString(_)
EncodeToString(bytes) ==
    IF bytes = <<>> THEN <<>>
    ELSE <<HexLower[(Head(bytes) \div 16) + 1], HexLower[(Head(bytes) % 16) + 1]>>
         \o EncodeToString(Tail(bytes))

ToLower(c) ==
    IF \E k \in 1..16 : HexUpper[k] = c
    THEN HexLower[CHOOSE k \in 1..16 : HexUpper[k] = c]
    ELSE c

LowerCase(text) == [k \in 1..Len(text) |-> ToLower(text[k])]

FromUTXOsReturned == pc = "returned" /\ ret.op = "FromUTXOs"

\* The input a previous output must become: its four fields, the final
\* sequence number 0xFFFFFFFF (both 16-bit halves 0xFFFF) and no unlocking
\* script.
Fresh(in, txid, vout, sat, script) ==
    /\ in.txid = txid
    /\ in.vout = vout
    /\ in.sat = sat
    /\ in.script = script
    /\ in.seq = <<65535, 65535>>
    /\ in.unlock = NoScript

\* C13: a successful FromUTXOs appends one input per supplied previous output,
\* in the supplied order, and a successful From appends exactly one input, the
\* hexadecimal text of whose identifier and locking script is the text it was
\* called with (up to letter case); each appended input carries the fields of
\* its previous output, the sequence number 0xFFFFFFFF and an empty unlocking
\* slot, and the inputs that were there before stay in front.
C13_AppendsExactly ==
    /\ (FromUTXOsReturned /\ ret.err = Nil) =>
          /\ Len(inputs) = Len(pre) + Len(args.utxos)
          /\ SubSeq(inputs, 1, Len(pre)) = pre
          /\ \A k \in 1..Len(args.utxos) :
                Fresh(inputs[Len(pre) + k], args.utxos[k].TxID,
                      args.utxos[k].Vout, args.utxos[k].Satoshis,
                      args.utxos[k].LockingScript)
    /\ (FromReturned /\ ret.err = Nil) =>
          /\ Len(inputs) = Len(pre) + 1
          /\ SubSeq(inputs, 1, Len(pre)) = pre
          /\ LET in == inputs[Len(inputs)]
             IN  /\ Fresh(in, in.txid, args.vout, args.satoshis, in.script)
                 /\ EncodeToString(in.txid) = LowerCase(args.prevTxID)
                 /\ EncodeToString(in.script) = LowerCase(args.script)

\* FromUTXOs succeeded with two different previous outputs on a transaction
\* that already had an input.
C13_Witness ==
    /\ FromUTXOsReturned
    /\ ret.err = Nil
    /\ Len(pre) = 1
    /\ Len(args.utxos) = 2
    /\ args.utxos[1] # args.utxos[2]

\* From succeeded on text with upper-case digits.
C13_WitnessFrom ==
    /\ FromReturned
    /\ ret.err = Nil
    /\ args.prevTxID # LowerCase(args.prevTxID)
    /\ Len(pre) >= 1

---------------------------------------------------------------------------
(* Fund and signing.                                                       *)

\* A step of Fund: its entry, a loop iteration, or its return.
InFund == pc = "fund" \/ pc' = "fund" \/ (pc' = "returned" /\ ret'.op = "Fund")

\* C14: Fund never signs.  No step of Fund, however the call ends, changes
\* the outputs or any field (unlocking slot, sequence number, previous-output
\* fields) of an input that is already in the list, and every input a step
\* appends has an empty unlocking slot.
C14_FundNeverSigns ==
    [][ InFund =>
          /\ outputs' = outputs
          /\ Len(inputs') >= Len(inputs)
          /\ SubSeq(inputs', 1, Len(inputs)) = inputs
          /\ \A k \in (Len(inputs) + 1)..Len(inputs') :
                inputs'[k].unlock = NoScript
      ]_vars

\* Fund returned the cancellation reported by the source after it had
\* appended inputs behind an input that was signed before the call.
C14_Witness ==
    /\ FundReturned
    /\ ret.err = "ErrCancelled"
    /\ Len(pre) >= 1
    /\ pre[1].unlock # NoScript
    /\ Len(inputs) > Len(pre)

---------------------------------------------------------------------------
(* Digests.                                                                *)

\* The reorderings of a list of n elements.
Perms(n) == {p \in [1..n -> 1..n] : \A a, b \in 1..n : p[a] = p[b] => a = b}

Reordered(ins, p) == [k \in 1..Len(ins) |-> ins[p[k]]]

Outpoints(ins) == [k \in 1..Len(ins) |-> <<ins[k].txid, ins[k].vout>>]

SequenceNumbers(ins) == [k \in 1..Len(ins) |-> ins[k].seq]

WellFormedUTXOs == {u \in UTXOs : PreviousTxIDAdd(u.TxID) = Nil}

\* C15 as stated: every reordering that changes the input list changes the
\* outpoint digest and the sequence-number digest.
C15_Original ==
    \A p \in Perms(Len(inputs)) :
        Reordered(inputs, p) # inputs =>
            /\ PreviousOutHash(Reordered(inputs, p)) # PreviousOutHash(inputs)
            /\ SequenceHash(Reordered(inputs, p)) # SequenceHash(inputs)

\* C15, amended: appending a single input changes both digests; under a
\* reordering the outpoint digest changes exactly when the sequence of
\* outpoints changes and the sequence-number digest exactly when the sequence
\* of sequence numbers changes (so lists that are element-wise equal have
\* equal digests, and reordering inputs that carry the same sequence number
\* leaves the sequence-number digest as it was); a digest a call returned is
\* the digest of the inputs as they are.
C15_DigestsFollowTheirFields ==
    /\ \A u \in WellFormedUTXOs :
          LET grown == addInput(inputs, NewInput(u))
          IN  /\ PreviousOutHash(grown) # PreviousOutHash(inputs)
              /\ SequenceHash(grown) # SequenceHash(inputs)
    /\ \A p \in Perms(Len(inputs)) :
          LET r == Reordered(inputs, p)
          IN  /\ (PreviousOutHash(r) = PreviousOutHash(inputs))
                    <=> (Outpoints(r) = Outpoints(inputs))
              /\ (SequenceHash(r) = SequenceHash(inputs))
                    <=> (SequenceNumbers(r) = SequenceNumbers(inputs))
    /\ (pc = "returned" /\ ret.op = "PreviousOutHash")
          => ret.hash = Sha256d(OutpointBytes(inputs))
    /\ (pc = "returned" /\ ret.op = "SequenceHash")
          => ret.hash = Sha256d(SequenceBytes(inputs))

\* SequenceHash returned on three inputs of which the first two differ in
\* their outpoint only and the third differs from them in its sequence
\* number: one reordering changes only the outpoint digest, another changes
\* both.
C15_Witness ==
    /\ pc = "returned"
    /\ ret.op = "SequenceHash"
    /\ Len(inputs) = 3
    /\ inputs[1].seq = inputs[2].seq
    /\ inputs[1].txid # inputs[2].txid
    /\ inputs[3].seq # inputs[1].seq

---------------------------------------------------------------------------
(* Batch additions.                                                        *)

AddReturned == pc = "returned" /\ ret.op = "AddP2PKHInputsFromTx"

\* The first position of a batch at which an addition fails, counted from 1;
\* one past the end when none fails.
FirstRefused(utxos) ==
    LET bad == {k \in 1..Len(utxos) : Len(utxos[k].TxID) # 2}
    IN  IF bad = {} THEN Len(utxos) + 1
        ELSE CHOOSE k \in bad : \A j \in bad : k <= j

FirstNotP2PKH(outs) ==
    LET bad == {k \in 1..Len(outs) : outs[k].LockingScript \notin Scripts}
    IN  IF bad = {} THEN Len(outs) + 1
        ELSE CHOOSE k \in bad : \A j \in bad : k <= j

\* The key hash the scripts of the model pay to.
PaysTo(script, pk) ==
    \/ script = LockA /\ pk = PubKeyA
    \/ script = LockB /\ pk = PubKeyB

\* C16: a batch addition has no rollback.  When FromUTXOs fails on its k-th
\* record, or AddP2PKHInputsFromTx on output k of the previous transaction,
\* the error is returned, the inputs for the records (the matching outputs)
\* before k are in the transaction behind the inputs that were there, in
\* order, and nothing is there for k or anything after it.
C16_NoRollback ==
    /\ FromUTXOsReturned =>
          LET k == FirstRefused(args.utxos)
          IN  /\ (ret.err # Nil) <=> (k <= Len(args.utxos))
              /\ Len(inputs) = Len(pre) + (k - 1)
              /\ SubSeq(inputs, 1, Len(pre)) = pre
              /\ \A j \in 1..(k - 1) :
                    Fresh(inputs[Len(pre) + j], args.utxos[j].TxID,
                          args.utxos[j].Vout, args.utxos[j].Satoshis,
                          args.utxos[j].LockingScript)
    /\ AddReturned =>
          LET outs == args.pvsTx.outputs
              k    == FirstNotP2PKH(outs)
              hits == {j \in 1..(k - 1) :
                          PaysTo(outs[j].LockingScript, args.matchPK)}
          IN  /\ (ret.err # Nil) <=> (k <= Len(outs))
              /\ Len(inputs) = Len(pre) + Cardinality(hits)
              /\ SubSeq(inputs, 1, Len(pre)) = pre
              /\ \A j \in hits :
                    Fresh(inputs[Len(pre) + Cardinality({m \in hits : m <= j})],
                          args.pvsTx.id, j - 1, outs[j].Satoshis,
                          outs[j].LockingScript)

\* The scan failed on the second output of a previous transaction whose
\* first and third outputs match the key: the input for the first output was
\* appended.
C16_Witness ==
    /\ AddReturned
    /\ ret.err = ErrNotP2PKH
    /\ args.matchPK = PubKeyA
    /\ Len(args.pvsTx.outputs) = 3
    /\ Len(pre) >= 1
    /\ Len(inputs) = Len(pre) + 1

\* FromUTXOs failed on its second record after appending the first.
C16_WitnessFromUTXOs ==
    /\ FromUTXOsReturned
    /\ ret.err = ErrInvalidTxID
    /\ Len(args.utxos) = 2
    /\ Len(inputs) = Len(pre) + 1

---------------------------------------------------------------------------
(* The funding loop.                                                       *)

\* C17: every invocation of the UTXO source by Fund happens with a nonzero
\* deficit and is given as its hint the deficit computed afresh from the
\* inputs, the outputs and the fee policy as they are then; with a zero
\* deficit nothing is invoked and nothing is added, so a Fund call whose
\* initial deficit is zero returns without an invocation and with the inputs
\* it started with.
C17_HintIsFreshDeficit ==
    [][ /\ (pc = "fund" /\ deficit # 0) =>
              /\ calls' = Bump(calls)
              /\ last'.hint = estimateDeficit(inputs, outputs, fq)
              /\ last'.hint # 0
        /\ (pc = "fund" /\ deficit = 0) =>
              /\ calls' = calls
              /\ last' = last
              /\ inputs' = inputs
        /\ (pc = "idle" /\ pc' = "fund") => (calls' = 0 /\ last' = NoCall)
        /\ (pc' = "returned" /\ ret'.op = "Fund"
                /\ estimateDeficit(pre', outputs', fq') = 0) =>
              (calls' = 0 /\ last' = NoCall /\ inputs' = pre')
      ]_vars

\* Fund made two invocations: the first returned UTXOs, and the second was
\* given the deficit of the grown transaction, which is not the first hint
\* less the satoshis returned.
C17_Witness ==
    /\ FundReturned
    /\ calls = 2
    /\ first.utxos # <<>>
    /\ last.err \in Exhaustion
    /\ last.hint = estimateDeficit(inputs, outputs, fq)
    /\ last.hint # first.hint - SumUTXOs(first.utxos)

Unfunded == pc = "fund" /\ deficit # 0

\* C18: Fund has no iteration cap.  With a source that never signals
\* exhaustion or failure and whose sets never bring the recomputed deficit to
\* zero, a Fund call that has found a nonzero deficit never returns, and it
\* goes on invoking the source for ever (the parity of the number of
\* invocations keeps changing).
C18_NoIterationCap ==
    /\ [](Unfunded => [](Unfunded))
    /\ Unfunded ~> (Unfunded /\ tick)
    /\ Unfunded ~> (Unfunded /\ ~tick)

\* A Fund call still in its loop after at least MaxCalls + 2 invocations of
\* such a source.
C18_Witness ==
    /\ Unfunded
    /\ calls = MaxCalls + 1
    /\ ~tick
    /\ Len(inputs) > Len(pre)

---------------------------------------------------------------------------
(* The signing loop.                                                       *)

\* Everything of an input but its unlocking slot.
Unsigned(in) == [in EXCEPT !.unlock = NoScript]

\* C19: FillAllInputs works on one input after the other.  When the resolver
\* and the unlocker are invoked for input i, they have been invoked for
\* exactly the inputs 0..i-1 before, each of those invocations succeeded, and
\* the transaction they are handed has in the slots of inputs 0..i-1 the
\* proofs returned for them in this call and in the slots of inputs i and
\* above what was there when the call was entered.  FillAllInputs changes
\* neither the outputs nor the input list except for unlocking slots.
C19_Sequential ==
    [][ /\ (pc = "fill" /\ Len(resolved') > Len(resolved)) =>
              /\ resolved'[Len(resolved')].idx = i
              /\ Len(resolved) = i
              /\ Len(unlocked) = i
              /\ \A j \in 1..i :
                    /\ resolved[j].idx = j - 1
                    /\ resolved[j].err = Nil
                    /\ unlocked[j].idx = j - 1
                    /\ unlocked[j].err = Nil
                    /\ inputs[j].unlock = unlocked[j].script
              /\ \A j \in (i + 1)..Len(inputs) : inputs[j].unlock = pre[j].unlock
        /\ (pc = "fill" \/ pc' = "fill") =>
              /\ outputs' = outputs
              /\ Len(inputs') = Len(pre')
              /\ \A j \in 1..Len(pre') : Unsigned(inputs'[j]) = Unsigned(pre'[j])
      ]_vars

\* The loop stands before the third of three inputs: the first two have got
\* different proofs in this call, the third still has the script stored by
\* an earlier call.
C19_Witness ==
    /\ pc = "fill"
    /\ i = 2
    /\ Len(unlocked) = 2
    /\ Len(inputs) = 3
    /\ pre[3].unlock # NoScript
    /\ inputs[3].unlock = pre[3].unlock
    /\ inputs[1].unlock # pre[1].unlock
    /\ inputs[1].unlock # inputs[2].unlock

===========================================================================
